---- MODULE Spec2Model ----
(***************************************************************************)
(* openapi-analyzer-mcp: the OpenAPIAnalyzer registry (specs,              *)
(* loadedSources), its asynchronous loadSpecs, the start-up validation and *)
(* the CallToolRequestSchema handler of src/src/index.ts.                  *)
(*                                                                         *)
(* A request handler is an async function: it runs without interruption up *)
(* to its next await, where other handlers may run.  Every action below is *)
(* one such uninterrupted block of one handler.                            *)
(***************************************************************************)
EXTENDS Integers, Sequences, FiniteSets, TLC

\* -------------------------------------------------------------- bounds
\* Tool calls the client sends in one run of the server.
MaxCalls == 2

\* Request handlers that may be in flight at the same time.
\* The number of specs of a registry the queries are tried on.
MaxSpecs == 2
Procs == {1, 2}

\* ------------------------------------------------------------ fixtures
\* undefined / unset
NULL == "null"

\* A file or api name is <<base, extension>>: "a.json" is <<"a", "json">>,
\* "" is <<"", "">>.
EmptyName == <<"", "">>

\* A URL is the sequence of the segments url.split('/') yields; no URL
\* (undefined) is the empty sequence.
NoUrl == <<>>
UrlA == << <<"http:", "">>, EmptyName, <<"h", "">>, <<"a", "json">> >>
UrlB == << <<"http:", "">>, EmptyName, <<"h", "">>, <<"b", "json">> >>
UrlSlash == << <<"http:", "">>, EmptyName, <<"h", "">>, <<"v1", "">>, EmptyName >>

\* The document behind OPENAPI_DISCOVERY_URL when it is well-formed: one
\* entry, in apis.json format (the custom format, spec_url, is what
\* loadFromUrls hands to loadSingleRemoteSpec).
RegistryApis ==
  << [name |-> <<"a", "json">>, spec_url |-> NoUrl,
      properties |-> << [type |-> "x-docs", url |-> UrlSlash],
                        [type |-> "Swagger", url |-> UrlB] >>] >>

\* What fs.readdir(OPENAPI_SPECS_FOLDER) lists.
FolderFiles == << <<"a", "json">>, <<"notes", "txt">>, <<"b", "yaml">> >>

\* The environments the server is started in: process.env at lines 22-24.
Configs ==
  [discoveryUrl : {NULL, "http://registry/apis.json"},
   specUrls : {<<>>, <<UrlA>>},
   specsFolder : {NULL, "/specs"}]

\* What fs.stat / fs.access find at OPENAPI_SPECS_FOLDER.
FolderStates == {"ok", "enoent", "notdir", "eacces"}

Sources == {"discovery", "urls", "folder"}

\* ------------------------------------------------------------- state
VARIABLES
  server,         \* "starting", "running" or "exited"
  exitCode,       \* the status process.exit was called with; 0: not called
  cfg,            \* DISCOVERY_URL, SPEC_URLS, SPECS_FOLDER
  fsState,        \* the state of the local folder on disk
  specs,          \* OpenAPIAnalyzer.specs
  loadedSources,  \* OpenAPIAnalyzer.loadedSources
  pc,             \* per handler: the await it is suspended at, or "idle"
                  \*   ("done", "rejected": at `await analyzer.loadSpecs()`)
  idx,            \* per handler: the item of the loop it is suspended in
  tried,          \* per handler: the items its load attempted (history, kept
                  \*   until the handler returns; so for the four below)
  failed,         \* per handler: the items its load has skipped (history)
  srcTried,       \* per handler: the sources its load has entered (history)
  track,          \* whether before and obs are recorded in this run
  before,         \* per handler: specs when its load began (history)
  obs,            \* per handler: specs as a query saw it during its load
  resp,           \* the response to the request received last, NoResp
                  \*   while that request is a load_specs still running
  calls,          \* tool calls received so far
  asked           \* the call resp answers, where a run records it (history);
                  \*   NoCall from the start of a load_specs

vars == <<server, exitCode, cfg, fsState, specs, loadedSources, pc, idx,
          tried, failed, srcTried, track, before, obs, resp, calls, asked>>

\* obs when no query has run during the load, and when one has.
NoObs == [seen |-> FALSE, specs |-> <<>>]
Saw(sp) == [seen |-> TRUE, specs |-> sp]
\* A response: fault is a protocol-level fault (the handler rejected);
\* otherwise the text payload is head followed by detail, and count is the
\* number the load_specs text reports.
NoResp == [tool |-> NULL, fault |-> FALSE, head |-> NULL, detail |-> NULL,
           count |-> 0]
\* asked when no call is recorded: the name of the tool or method, and its
\* arguments (a string argument that is not given is the empty string).
NoCall == [op |-> NULL, present |-> TRUE, filename |-> EmptyName,
           query |-> <<>>, schema1 |-> <<>>, schema2 |-> <<>>]

\* private specs: OpenAPISpec[] = [], and nothing loads before the first
\* request.
\* (PreloadedSpecs: a loadSpecs() in main() that found one file.)
PreloadedSpecs ==
  << [filename |-> <<"a", "json">>, spec |-> "petstore",
      source |-> [type |-> "local", url |-> NoUrl],
      item |-> <<"folder", 1>>, by |-> 1] >>
InitialSpecs == <<>>

Init ==
  /\ server = "starting"
  /\ exitCode = 0
  /\ cfg \in Configs
  /\ fsState \in FolderStates
  /\ (cfg.specsFolder = NULL => fsState = "enoent")
  /\ specs = InitialSpecs
  /\ loadedSources = <<>>
  /\ pc = [p \in Procs |-> "idle"]
  /\ idx = [p \in Procs |-> 0]
  /\ tried = [p \in Procs |-> {}]
  /\ failed = [p \in Procs |-> {}]
  /\ srcTried = [p \in Procs |-> {}]
  /\ track = FALSE
  /\ before = [p \in Procs |-> <<>>]
  /\ obs = [p \in Procs |-> NoObs]
  /\ resp = NoResp
  /\ calls = 0
  /\ asked = NoCall


\* ----------------------------------------------------------- start-up
\* validateConfiguration: no source configured at all.
NoSourceConfigured(c) ==
  c.discoveryUrl = NULL /\ Len(c.specUrls) = 0 /\ c.specsFolder = NULL

\* main(): validateConfiguration, then server.connect.  It is the only
\* validation main() calls.
Main ==
  /\ server = "starting"
  /\ IF NoSourceConfigured(cfg)
       THEN server' = "exited" /\ exitCode' = 1
       ELSE server' = "running" /\ exitCode' = exitCode
  /\ UNCHANGED <<asked, cfg, fsState, specs, loadedSources, pc, idx, tried,
                 failed, srcTried, track, before, obs, resp, calls>>

\* ------------------------------------------------------- the loaders
\* String.prototype.toLowerCase on the property types that occur.
toLowerCase(s) ==
  CASE s = "Swagger" -> "swagger"
    [] s = "OpenAPI" -> "openapi"
    [] OTHER -> s

\* url.split('/').pop() || 'remote-spec'
UrlName(url) ==
  LET last == url[Len(url)]
  IN IF last = EmptyName THEN <<"remote-spec", "">> ELSE last

\* properties.find(p => type is swagger or openapi)?.url
RECURSIVE FindOpenApiProperty(_)
FindOpenApiProperty(props) ==
  IF props = <<>> THEN NoUrl
  ELSE IF toLowerCase(Head(props).type) \in {"swagger", "openapi"}
         THEN Head(props).url
         ELSE FindOpenApiProperty(Tail(props))

\* The spec URL loadSingleRemoteSpec settles on, NoUrl if there is none.
SpecUrlOf(apiInfo) ==
  IF apiInfo.spec_url # NoUrl THEN apiInfo.spec_url
  ELSE FindOpenApiProperty(apiInfo.properties)

\* The document SwaggerParser.parse yields for a URL or a local file.
RemoteDoc(url) == IF url = UrlA THEN "petstore" ELSE "orders"
LocalDoc(file) == IF file[2] = "json" THEN "petstore" ELSE "broken"

\* What fetch + SwaggerParser.parse of one spec URL may end in.
RemoteOutcomes == {"ok", "neterr", "httperr", "parseerr"}
\* What SwaggerParser.parse of one local file may end in.
LocalOutcomes == {"ok", "parseerr"}
\* What fetching the registry document may end in.
RegistryOutcomes == {"ok", "neterr", "httperr", "noapis"}

\* The record a source pushes to this.loadedSources when it has finished:
\* count: this.specs.length.
\* (OwnLoadSource: count: the entries that source has put there.)
OwnLoadSource(type, sp) ==
  [type |-> type,
   count |-> Cardinality({k \in 1..Len(sp) : sp[k].item[1] = type})]
LoadSource(type, sp) == [type |-> type, count |-> Len(sp)]

\* this.specs.push(entry)  (PushFront: unshift in its place)
PushFront(sp, e) == <<e>> \o sp
Push(sp, e) == Append(sp, e)

\* loadSingleRemoteSpec: the registry entries after it has handled apiInfo.
\* item and p tell which load attempted which item (history only).
loadSingleRemoteSpec(sp, apiInfo, outcome, item, p) ==
  LET specUrl == SpecUrlOf(apiInfo)
  IN IF specUrl = NoUrl \/ outcome # "ok" THEN sp
     ELSE Push(sp, [filename |-> apiInfo.name,
                    spec |-> RemoteDoc(specUrl),
                    source |-> [type |-> "remote", url |-> specUrl],
                    item |-> item, by |-> p])

\* Whether loadSingleRemoteSpec rejects: its whole body is in try/catch, so
\* it never does.  (RemoteSpecRejectsOnParse: SwaggerParser.parse outside
\* the try.)
RemoteSpecRejectsOnParse(apiInfo, outcome) ==
  SpecUrlOf(apiInfo) # NoUrl /\ outcome = "parseerr"
RemoteSpecRejects(apiInfo, outcome) == FALSE

\* Whether the item was skipped: no spec URL, or fetch or parse failed.
RemoteSkipped(apiInfo, outcome) ==
  SpecUrlOf(apiInfo) = NoUrl \/ outcome # "ok"

\* loadSingleLocalSpec
loadSingleLocalSpec(sp, filename, outcome, item, p) ==
  IF outcome # "ok" THEN sp
  ELSE Push(sp, [filename |-> filename,
                 spec |-> LocalDoc(filename),
                 source |-> [type |-> "local", url |-> NoUrl],
                 item |-> item, by |-> p])

\* files.filter(endsWith .json, .yaml or .yml)
IsSpecFile(file) == file[2] \in {"json", "yaml", "yml"}
specFiles == SelectSeq(FolderFiles, IsSpecFile)

\* validateLocalFolder: the error it throws, NULL when the folder is fine.
validateLocalFolder(folder, state) ==
  IF folder = NULL THEN "SPECS_FOLDER not configured"
  ELSE CASE state = "notdir" -> "OPENAPI_SPECS_FOLDER is not a directory"
         [] state = "enoent" -> "OPENAPI_SPECS_FOLDER does not exist"
         [] state = "eacces" -> "No read permission for OPENAPI_SPECS_FOLDER"
         [] OTHER -> NULL

\* Whether loadFromLocalFolder rejects when validation or readdir throws:
\* its whole body is in try/catch, so it never does.
LocalFolderRejects(error) == FALSE

\* loadSpecs, lines 212-242: the await the load suspends at next.
EnterFolder == IF cfg.specsFolder # NULL THEN "fileItem" ELSE "done"
EnterUrls == IF Len(cfg.specUrls) > 0 THEN "urlItem" ELSE EnterFolder
EnterDiscovery == IF cfg.discoveryUrl # NULL THEN "discItem" ELSE EnterUrls

SourceOfPc(at) ==
  CASE at = "discItem" -> {"discovery"}
    [] at = "urlItem" -> {"urls"}
    [] at = "fileItem" -> {"folder"}
    [] OTHER -> {}

Suspend(p, at, i) ==
  /\ pc' = [pc EXCEPT ![p] = at]
  /\ idx' = [idx EXCEPT ![p] =
               IF at \in {"discItem", "urlItem", "fileItem"} THEN i ELSE 0]
  /\ srcTried' = [srcTried EXCEPT ![p] = @ \cup SourceOfPc(at)]

\* loadFromDiscoveryUrl when no spec is reached: the fetch of the registry
\* document fails, answers with an HTTP error or has no apis array.  The
\* function's catch logs it and the load goes on with the next source.
\* (A load at "discItem" 1 is suspended in the awaits from fetch(discoveryUrl)
\* to the parse of the first api: none of them changes the analyzer.)
FetchRegistryFails(p) ==
  /\ pc[p] = "discItem" /\ idx[p] = 1
  /\ \E outcome \in RegistryOutcomes \ {"ok"} : Suspend(p, EnterUrls, 1)
  /\ UNCHANGED <<asked, server, exitCode, cfg, fsState, track, specs, loadedSources, tried,
                 failed, before, obs, resp, calls>>

\* loadFromDiscoveryUrl: one turn of the loop over registry.apis.
LoadRegistryApi(p) ==
  /\ pc[p] = "discItem"
  /\ \E outcome \in RemoteOutcomes :
       LET i == idx[p]
           apiInfo == RegistryApis[i]
           item == <<"discovery", i>>
           sp == loadSingleRemoteSpec(specs, apiInfo, outcome, item, p)
       IN /\ tried' = [tried EXCEPT ![p] = @ \cup {item}]
          /\ failed' = [failed EXCEPT ![p] =
                          IF RemoteSkipped(apiInfo, outcome)
                            THEN @ \cup {item} ELSE @]
          /\ IF RemoteSpecRejects(apiInfo, outcome)
               THEN \* caught by loadFromDiscoveryUrl's catch
                    /\ specs' = specs
                    /\ Suspend(p, EnterUrls, 1)
                    /\ UNCHANGED loadedSources
             ELSE IF i < Len(RegistryApis)
               THEN /\ specs' = sp
                    /\ Suspend(p, "discItem", i + 1)
                    /\ UNCHANGED loadedSources
             ELSE /\ specs' = sp
                  /\ loadedSources' =
                       Append(loadedSources,
                              LoadSource("discovery", sp))
                  /\ Suspend(p, EnterUrls, 1)
  /\ UNCHANGED <<asked, server, exitCode, cfg, fsState, track, before, obs, resp, calls>>

\* loadFromUrls: one turn of the loop over specUrls.
LoadUrl(p) ==
  /\ pc[p] = "urlItem"
  /\ \E outcome \in RemoteOutcomes :
       LET i == idx[p]
           url == cfg.specUrls[i]
           apiInfo == [name |-> UrlName(url), spec_url |-> url,
                       properties |-> <<>>]
           item == <<"urls", i>>
           sp == loadSingleRemoteSpec(specs, apiInfo, outcome, item, p)
       IN /\ tried' = [tried EXCEPT ![p] = @ \cup {item}]
          /\ failed' = [failed EXCEPT ![p] =
                          IF RemoteSkipped(apiInfo, outcome)
                            THEN @ \cup {item} ELSE @]
          /\ IF RemoteSpecRejects(apiInfo, outcome)
               THEN \* nothing catches it before the tool handler
                    /\ specs' = specs
                    /\ Suspend(p, "rejected", 0)
                    /\ UNCHANGED loadedSources
             ELSE IF i < Len(cfg.specUrls)
               THEN /\ specs' = sp
                    /\ Suspend(p, "urlItem", i + 1)
                    /\ UNCHANGED loadedSources
             ELSE /\ specs' = sp
                  /\ loadedSources' =
                       Append(loadedSources,
                              LoadSource("urls", sp))
                  /\ Suspend(p, EnterFolder, 1)
  /\ UNCHANGED <<asked, server, exitCode, cfg, fsState, track, before, obs, resp, calls>>

\* What validateLocalFolder or fs.readdir throws, NULL if neither does.
FolderError(readdir) ==
  LET error == validateLocalFolder(cfg.specsFolder, fsState)
  IN IF error # NULL THEN error
     ELSE IF readdir # "ok" THEN readdir ELSE NULL

\* loadFromLocalFolder when no file is reached: validateLocalFolder (fs.stat,
\* fs.access) or fs.readdir throws, which the function's catch logs, or no
\* file has a spec extension.
\* (A load at "fileItem" 1 is suspended in the awaits from fs.stat to the
\* parse of the first file: none of them changes the analyzer.)
OpenFolderFails(p) ==
  /\ pc[p] = "fileItem" /\ idx[p] = 1
  /\ \E readdir \in {"ok", "ioerr"} :
       /\ FolderError(readdir) # NULL \/ Len(specFiles) = 0
       /\ IF FolderError(readdir) # NULL
               /\ LocalFolderRejects(FolderError(readdir))
            THEN Suspend(p, "rejected", 0)
            ELSE Suspend(p, "done", 0)
  /\ UNCHANGED <<asked, server, exitCode, cfg, fsState, track, specs, loadedSources, tried,
                 failed, before, obs, resp, calls>>

\* loadFromLocalFolder: one turn of the loop over specFiles.
LoadFile(p) ==
  /\ pc[p] = "fileItem"
  /\ FolderError("ok") = NULL
  /\ idx[p] <= Len(specFiles)
  /\ \E outcome \in LocalOutcomes :
       LET i == idx[p]
           item == <<"folder", i>>
           sp == loadSingleLocalSpec(specs, specFiles[i], outcome, item, p)
       IN /\ tried' = [tried EXCEPT ![p] = @ \cup {item}]
          /\ failed' = [failed EXCEPT ![p] =
                          IF outcome # "ok" THEN @ \cup {item} ELSE @]
          /\ specs' = sp
          /\ IF i < Len(specFiles)
               THEN Suspend(p, "fileItem", i + 1) /\ UNCHANGED loadedSources
             ELSE /\ loadedSources' =
                       Append(loadedSources,
                              LoadSource("folder", sp))
                  /\ Suspend(p, "done", 0)
  /\ UNCHANGED <<asked, server, exitCode, cfg, fsState, track, before, obs, resp, calls>>


\* ------------------------------------------------------------ strings
\* A string is the sequence of its characters, one token per UTF-16 code
\* unit; Eszett is U+00DF, the one character of the fixtures whose upper
\* case is two characters.
Eszett == "sz"
UpperLetters ==
  <<"A", "B", "C", "D", "E", "F", "G", "H", "I", "J", "K", "L", "M",
    "N", "O", "P", "Q", "R", "S", "T", "U", "V", "W", "X", "Y", "Z">>
LowerLetters ==
  <<"a", "b", "c", "d", "e", "f", "g", "h", "i", "j", "k", "l", "m",
    "n", "o", "p", "q", "r", "s", "t", "u", "v", "w", "x", "y", "z">>
\* The characters in the order of their code units.
CodeOrder ==
  <<" ", "$", "-", ".", "/", "0", "1", "2", "3", "4", "5", "6", "7", "8", "9">> \o UpperLetters \o
  LowerLetters \o <<"{", "}", Eszett>>

\* indexOf + 1: the first position of c in seq, 0 when it is not there.
IndexIn(seq, c) ==
  IF \E i \in 1..Len(seq) : seq[i] = c
    THEN CHOOSE i \in 1..Len(seq) :
           seq[i] = c /\ \A j \in 1..(i - 1) : seq[j] # c
    ELSE 0
CharCode(c) == IndexIn(CodeOrder, c)

\* String.prototype.toLowerCase and toUpperCase, character by character.
toLowerCaseChar(c) ==
  IF IndexIn(UpperLetters, c) > 0
    THEN <<LowerLetters[IndexIn(UpperLetters, c)]>> ELSE <<c>>
toUpperCaseChar(c) ==
  IF c = Eszett THEN <<"S", "S">>
  ELSE IF IndexIn(LowerLetters, c) > 0
    THEN <<UpperLetters[IndexIn(LowerLetters, c)]>> ELSE <<c>>
RECURSIVE toLowerCaseText(_)
toLowerCaseText(t) ==
  IF t = <<>> THEN <<>>
  ELSE toLowerCaseChar(Head(t)) \o toLowerCaseText(Tail(t))
RECURSIVE toUpperCaseText(_)
toUpperCaseText(t) ==
  IF t = <<>> THEN <<>>
  ELSE toUpperCaseChar(Head(t)) \o toUpperCaseText(Tail(t))

\* String.prototype.includes
\* (startsWith: t.startsWith(q).)
startsWith(t, q) == Len(q) <= Len(t) /\ SubSeq(t, 1, Len(q)) = q
includes(t, q) ==
  \E i \in 0..(Len(t) - Len(q)) : SubSeq(t, i + 1, i + Len(q)) = q

\* Array.prototype.join(' ')
RECURSIVE join(_)
join(parts) ==
  IF parts = <<>> THEN <<>>
  ELSE IF Len(parts) = 1 THEN Head(parts)
  ELSE Head(parts) \o <<" ">> \o join(Tail(parts))

\* The comparison of the default Array.prototype.sort: by code units.
RECURSIVE LessText(_, _)
LessText(a, b) ==
  IF b = <<>> THEN FALSE
  ELSE IF a = <<>> THEN TRUE
  ELSE IF Head(a) # Head(b) THEN CharCode(Head(a)) < CharCode(Head(b))
  ELSE LessText(Tail(a), Tail(b))

\* [].concat(...seqs)
RECURSIVE Flatten(_)
Flatten(seqs) ==
  IF seqs = <<>> THEN <<>> ELSE Head(seqs) \o Flatten(Tail(seqs))

\* An optional string field: absent (undefined) or a string.
Absent == [has |-> FALSE, text |-> <<>>]
Str(t) == [has |-> TRUE, text |-> t]
\* JavaScript truthiness of such a field, and `field || ''`.
Truthy(opt) == opt.has /\ opt.text # <<>>
OrEmpty(opt) == IF Truthy(opt) THEN opt.text ELSE <<>>

\* ------------------------------------------------------ the documents
\* The parsed documents.  A path item is null (isNull) or an ordered list
\* of keys with their values; a security scheme is null or has a type, ""
\* when it has none.
NullItem == [isNull |-> TRUE, entries |-> <<>>]
Item(entries) == [isNull |-> FALSE, entries |-> entries]

\* The value under a key of a path item: an operation object, an array
\* (parameters), null or a string ($ref, a vendor extension).
Operation(summary, description, operationId) ==
  [kind |-> "object", summary |-> summary, description |-> description,
   operationId |-> operationId]
ArrayValue ==
  [kind |-> "array", summary |-> Absent, description |-> Absent,
   operationId |-> Absent]
NullValue ==
  [kind |-> "null", summary |-> Absent, description |-> Absent,
   operationId |-> Absent]
StringValue ==
  [kind |-> "string", summary |-> Absent, description |-> Absent,
   operationId |-> Absent]
Key(k, v) == [key |-> k, op |-> v]

\* A schema of components.schemas: a schema object, or the boolean schema
\* false.
SchemaObject(id) == [kind |-> "object", id |-> id]
SchemaFalse == [kind |-> "false", id |-> "false"]
\* What a property read finds on Object.prototype when the object has no
\* own property of that name.
Inherited == [kind |-> "function", id |-> "Object.prototype"]
NoInfo == [title |-> Absent, version |-> Absent, description |-> Absent]

\* The names Object.prototype defines that occur in the fixtures.
Constructor == <<"c", "o", "n", "s", "t", "r", "u", "c", "t", "o", "r">>
ObjectPrototypeKeys == {Constructor}

DocIds == {"petstore", "users", "shop", "legacy", "orders", "broken"}
Doc(id) ==
  CASE id = "petstore" ->
         [hasInfo |-> TRUE,
          info |-> [title |-> Str(<<"P", "e", "t", "s">>),
                    version |-> Str(<<"1", ".", "0">>),
                    description |-> Absent],
          hasPaths |-> TRUE,
          paths |-> <<
            [path |-> <<"/", "p">>,
             item |-> Item(<<
               Key(<<"g", "e", "t">>, Operation(Str(<<"L", "i", "s", "t">>), Absent,
                                            Str(<<"l", "s">>))),
               Key(<<"p", "o", "s", "t">>, Operation(Absent, Absent, Absent)) >>)],
            [path |-> <<"/", "p", "/", "{", "a", "}">>,
             item |-> Item(<<
               Key(<<"g", "e", "t">>, Operation(Str(<<"O", "n", "e">>),
                                            Str(<<"b", "y", " ", "i", "d">>), Absent)),
               Key(<<"p", "a", "r", "a", "m", "e", "t", "e", "r", "s">>,
                   ArrayValue) >>)] >>,
          securitySchemes |-> << [name |-> "key", isNull |-> FALSE,
                                 type |-> "apiKey"] >>,
          hasSchemas |-> TRUE,
          schemas |-> << [name |-> <<"U", "s", "e", "r">>, value |-> SchemaObject("u1")],
                         [name |-> <<"P", "e", "t">>, value |-> SchemaObject("p1")] >>]
    [] id = "users" ->
         [hasInfo |-> TRUE,
          info |-> [title |-> Str(<<"U", "s", "e", "r", "s">>),
                    version |-> Str(<<"1", ".", "0">>),
                    description |-> Str(<<"d">>)],
          hasPaths |-> TRUE,
          paths |-> <<
            [path |-> <<"/", "p", "/", "{", "b", "}">>,
             item |-> Item(<<
               Key(<<"P", "o", "s", "t">>, Operation(Str(<<"M", "a", "sz">>), Absent, Absent)),
               Key(<<"G", "E", "T">>, Operation(Str(<<>>), Absent, Str(<<"g", "e", "t", "B">>))),
               Key(<<"g", "e", "t">>, Operation(Absent, Absent, Absent)),
               Key(<<"d", "e", "l", "e", "t", "e">>, NullValue),
               Key(<<"x", "-", "e">>, StringValue) >>)],
            [path |-> <<"/", "q", "/", "{", "}">>,
             item |-> Item(<< Key(<<"$", "r", "e", "f">>, StringValue) >>)] >>,
          securitySchemes |-> << [name |-> "oauth", isNull |-> FALSE,
                                 type |-> "oauth2"],
                               [name |-> "key", isNull |-> FALSE,
                                 type |-> "apiKey"],
                               [name |-> "open", isNull |-> FALSE,
                                 type |-> ""] >>,
          hasSchemas |-> TRUE,
          schemas |-> << [name |-> <<"U", "s", "e", "r">>, value |-> SchemaFalse],
                         [name |-> <<"O", "r", "d", "e", "r">>, value |-> SchemaObject("o1")] >>]
    [] id = "shop" ->
         [hasInfo |-> TRUE,
          info |-> [title |-> Absent, version |-> Absent,
                    description |-> Absent],
          hasPaths |-> TRUE,
          paths |-> <<
            [path |-> <<"/", "a", "/", "{", "x", "}">>,
             item |-> Item(<< Key(<<"g", "e", "t">>, Operation(Absent, Absent, Absent)) >>)],
            [path |-> <<"/", "a", "/", "{", "y", "}">>,
             item |-> Item(<< Key(<<"p", "u", "t">>, Operation(Absent, Absent, Absent)) >>)],
            [path |-> <<"/", "a", "/", "{", "x">>,
             item |-> Item(<< >>)] >>,
          securitySchemes |-> << [name |-> "basic", isNull |-> FALSE,
                                 type |-> "http"] >>,
          hasSchemas |-> FALSE,
          schemas |-> << >>]
    [] id = "legacy" ->
         [hasInfo |-> TRUE,
          info |-> [title |-> Str(<<"O", "l", "d">>),
                    version |-> Str(Constructor),
                    description |-> Absent],
          hasPaths |-> TRUE,
          paths |-> << >>,
          securitySchemes |-> << >>,
          hasSchemas |-> TRUE,
          schemas |-> << >>]
    [] id = "orders" ->
         [hasInfo |-> FALSE, info |-> NoInfo,
          hasPaths |-> FALSE, paths |-> <<>>,
          securitySchemes |-> << >>,
          hasSchemas |-> FALSE, schemas |-> << >>]
    [] OTHER ->
         [hasInfo |-> TRUE,
          info |-> [title |-> Str(<<"B", "a", "d">>), version |-> Str(<<"2">>),
                    description |-> Absent],
          hasPaths |-> TRUE,
          paths |-> << [path |-> <<"/", "z">>, item |-> NullItem] >>,
          securitySchemes |-> << [name |-> "bad", isNull |-> TRUE,
                                 type |-> ""] >>,
          hasSchemas |-> FALSE, schemas |-> << >>]

\* ---------------------------------------------------------- the queries
\* The fields an entry copies from its document when it is pushed:
\* info (NoInfo when the document has none), paths, components.schemas.
InfoOf(e) == IF Doc(e.spec).hasInfo THEN Doc(e.spec).info ELSE NoInfo
PathsOf(e) == IF Doc(e.spec).hasPaths THEN Doc(e.spec).paths ELSE <<>>

\* listAllSpecs: one summary per entry; endpointCount counts path keys.
\* (CountOperations: the keys of every path item in place of the keys of
\* paths.)
\* (AsDeclared: spec.info?.title with no `|| 'No title'`.)
AsDeclared(opt, default) == opt.text
OrDefault(opt, default) == IF Truthy(opt) THEN opt.text ELSE default
\* (CountOperations: the keys of the path items in place of the paths.)
CountOperations(e) ==
  Len(Flatten([k \in 1..Len(PathsOf(e)) |-> PathsOf(e)[k].item.entries]))
CountPathKeys(e) ==
  IF Doc(e.spec).hasPaths THEN Len(Doc(e.spec).paths) ELSE 0
listAllSpecs(sp) ==
  [i \in 1..Len(sp) |->
     [filename |-> sp[i].filename,
      title |-> OrDefault(InfoOf(sp[i]).title, <<"N", "o", " ", "t", "i", "t", "l", "e">>),
      version |-> OrDefault(InfoOf(sp[i]).version,
                            <<"N", "o", " ", "v", "e", "r", "s", "i", "o", "n">>),
      description |-> OrDefault(InfoOf(sp[i]).description,
                                <<"N", "o", " ", "d", "e", "s", "c", "r", "i", "p", "t", "i", "o", "n">>),
      endpointCount |-> CountPathKeys(sp[i])]]

\* getLoadedSources: this.loadedSources itself.
getLoadedSources(sources) == sources

\* getSpecByFilename: the document of the first entry with that filename,
\* NULL when there is none.
\* (getFirstSpec: find(s => s.filename = filename), an assignment.)
getFirstSpec(sp, filename) ==
  IF sp # <<>> THEN sp[1].spec ELSE NULL
getSpecByFilename(sp, filename) ==
  IF \E i \in 1..Len(sp) : sp[i].filename = filename
    THEN sp[CHOOSE i \in 1..Len(sp) :
              /\ sp[i].filename = filename
              /\ \A j \in 1..(i - 1) : sp[j].filename # filename].spec
    ELSE NULL

\* Object.entries(pathItem) and Object.keys(pathItem) throw a TypeError on
\* a null path item: searchEndpoints and getApiStats throw when a loaded
\* document has one.
HasNullPathItem(sp) ==
  \E i \in 1..Len(sp) :
    /\ Doc(sp[i].spec).hasPaths
    /\ \E k \in 1..Len(Doc(sp[i].spec).paths) :
         Doc(sp[i].spec).paths[k].item.isNull
searchEndpointsThrows(sp, query) == HasNullPathItem(sp)
getApiStatsThrows(sp) == HasNullPathItem(sp)

\* schemeObj.type throws a TypeError on a null security scheme.
findInconsistenciesThrows(sp) ==
  \E i \in 1..Len(sp) :
    \E k \in 1..Len(Doc(sp[i].spec).securitySchemes) :
      Doc(sp[i].spec).securitySchemes[k].isNull

\* What a method returns, or that it threw.
Returned(value) == [threw |-> FALSE, value |-> value]
Threw == [threw |-> TRUE, value |-> <<>>]

\* typeof operation === 'object' && operation !== null
\* (NotNull: operation === null alone, without the typeof test.)
NotNull(v) == v.kind # "null"
IsObject(v) == v.kind \in {"object", "array"}

\* searchEndpoints: the text an operation is searched in.
\* (searchableTextAsWritten: without the toLowerCase.)
searchableTextAsWritten(path, method, op) ==
  join(<<path, method, OrEmpty(op.summary), OrEmpty(op.description),
         OrEmpty(op.operationId)>>)
searchableText(path, method, op) ==
  toLowerCaseText(join(<<path, method, OrEmpty(op.summary),
                         OrEmpty(op.description),
                         OrEmpty(op.operationId)>>))

\* searchEndpoints: the result pushed for a match.
SearchResult(e, path, method, op) ==
  [filename |-> e.filename, api_title |-> InfoOf(e).title, path |-> path,
   method |-> toUpperCaseText(method), summary |-> op.summary,
   description |-> op.description, operationId |-> op.operationId]

\* searchEndpoints: the loop over the keys of one path item, the loop over
\* the paths of one spec, and the method.
PathItemResults(e, path, item, lowerQuery) ==
  Flatten([m \in 1..Len(item.entries) |->
    IF /\ IsObject(item.entries[m].op)
       /\ includes(searchableText(path, item.entries[m].key,
                                  item.entries[m].op), lowerQuery)
      THEN <<SearchResult(e, path, item.entries[m].key,
                          item.entries[m].op)>>
      ELSE <<>>])
SpecResults(e, lowerQuery) ==
  Flatten([k \in 1..Len(PathsOf(e)) |->
    PathItemResults(e, PathsOf(e)[k].path, PathsOf(e)[k].item,
                    lowerQuery)])
searchEndpoints(sp, query) ==
  IF searchEndpointsThrows(sp, query) THEN Threw
  ELSE Returned(Flatten([i \in 1..Len(sp) |->
                           SpecResults(sp[i], toLowerCaseText(query))]))

\* findInconsistencies: authSchemes, a Map from a type to the qualified
\* names `${spec.filename}: ${name}` pushed for it, in insertion order.
QualifiedName(filename, name) == <<filename, ": ", name>>
MapIndex(map, key) ==
  IF \E i \in 1..Len(map) : map[i].key = key
    THEN CHOOSE i \in 1..Len(map) : map[i].key = key
    ELSE 0
MapPush(map, key, x) ==
  IF MapIndex(map, key) > 0
    THEN [map EXCEPT ![MapIndex(map, key)].value = Append(@, x)]
    ELSE Append(map, [key |-> key, value |-> <<x>>])
\* lines 610-620: the loop over the security schemes of one spec.
RECURSIVE CollectSchemes(_, _, _)
CollectSchemes(map, filename, schemes) ==
  IF schemes = <<>> THEN map
  ELSE CollectSchemes(
         IF Head(schemes).type # ""
           THEN MapPush(map, Head(schemes).type,
                        QualifiedName(filename, Head(schemes).name))
           ELSE map,
         filename, Tail(schemes))
\* lines 608-622: the loop over the specs.
RECURSIVE CollectSpecs(_, _)
CollectSpecs(map, sp) ==
  IF sp = <<>> THEN map
  ELSE CollectSpecs(CollectSchemes(map, Head(sp).filename,
                                   Doc(Head(sp).spec).securitySchemes),
                    Tail(sp))
\* if (authSchemes.size > 1)
\* (SeveralSchemes: authSchemes.size > 0.)
SeveralSchemes(map) == Len(map) > 0
SeveralTypes(map) == Len(map) > 1
findInconsistencies(sp) ==
  IF findInconsistenciesThrows(sp) THEN Threw
  ELSE Returned(
         IF SeveralTypes(CollectSpecs(<<>>, sp))
           THEN << [type |-> "authentication",
                    message |->
                      "Multiple authentication schemes found across APIs",
                    details |-> CollectSpecs(<<>>, sp)] >>
           ELSE <<>>)

\* getApiStats: const httpMethods
httpMethods ==
  {<<"g", "e", "t">>,
   <<"p", "o", "s", "t">>,
   <<"p", "u", "t">>,
   <<"d", "e", "l", "e", "t", "e">>,
   <<"p", "a", "t", "c", "h">>,
   <<"o", "p", "t", "i", "o", "n", "s">>,
   <<"h", "e", "a", "d">>}

\* A counter object such as stats.versions: its own properties in the
\* order they were added.  A value is a number (num) or, once an inherited
\* function has been added to, a string of that function's source followed
\* by n ones.
Number(n) == [num |-> TRUE, n |-> n]
FunctionText(n) == [num |-> FALSE, n |-> n]
OwnIndex(obj, key) ==
  IF \E i \in 1..Len(obj) : obj[i].key = key
    THEN CHOOSE i \in 1..Len(obj) : obj[i].key = key
    ELSE 0
\* obj[key] = (obj[key] || 0) + 1 on an object created as {}: a key the
\* object does not own reads Object.prototype's property of that name.
\* (SetToOne: obj[key] = 1.)
SetToOne(obj, key) ==
  IF OwnIndex(obj, key) > 0 THEN obj
  ELSE Append(obj, [key |-> key, value |-> Number(1)])
Increment(obj, key) ==
  IF OwnIndex(obj, key) > 0
    THEN [obj EXCEPT ![OwnIndex(obj, key)].value.n = @ + 1]
  ELSE IF key \in ObjectPrototypeKeys
    THEN Append(obj, [key |-> key, value |-> FunctionText(1)])
  ELSE Append(obj, [key |-> key, value |-> Number(1)])

\* path.replace(/\{[^}]+\}/g, '{id}')
\* (pathAsWritten: the path itself as the key.)
ClosingBrace(t) ==
  IF \E j \in 2..Len(t) : t[j] = "}"
    THEN CHOOSE j \in 2..Len(t) :
           t[j] = "}" /\ \A i \in 2..(j - 1) : t[i] # "}"
    ELSE 0
pathAsWritten(t) == t
RECURSIVE pathPattern(_)
pathPattern(t) ==
  IF t = <<>> THEN <<>>
  ELSE IF Head(t) = "{" /\ ClosingBrace(t) >= 3
    THEN <<"{", "i", "d", "}">> \o
         pathPattern(SubSeq(t, ClosingBrace(t) + 1, Len(t)))
  ELSE <<Head(t)>> \o pathPattern(Tail(t))

\* Array.from(apiMethods).sort(): ascending by code units.
\* (Unsorted: Array.from(apiMethods) alone, in insertion order.)
RECURSIVE InsertSorted(_, _)
InsertSorted(sorted, x) ==
  IF sorted = <<>> THEN <<x>>
  ELSE IF LessText(x, Head(sorted)) THEN <<x>> \o sorted
  ELSE <<Head(sorted)>> \o InsertSorted(Tail(sorted), x)
Unsorted(seq) == seq
RECURSIVE sort(_)
sort(seq) ==
  IF seq = <<>> THEN <<>> ELSE InsertSorted(sort(Tail(seq)), Head(seq))

\* apiMethods.add(upperMethod): a Set keeps insertion order, no duplicates.
SetAdd(set, x) ==
  IF \E i \in 1..Len(set) : set[i] = x THEN set ELSE Append(set, x)

\* httpMethods.includes(method.toLowerCase())
\* (IsHttpMethodExact: httpMethods.includes(method).)
IsHttpMethodExact(method) == method \in httpMethods
IsHttpMethod(method) == toLowerCaseText(method) \in httpMethods

\* getApiStats, lines 567-574: the loop over the keys of one path item.
\* acc holds endpointCount, apiMethods and stats.
RECURSIVE CountKeys(_, _)
CountKeys(acc, entries) ==
  IF entries = <<>> THEN acc
  ELSE CountKeys(
         IF IsHttpMethod(Head(entries).key)
           THEN [acc EXCEPT
                   !.endpointCount = @ + 1,
                   !.apiMethods =
                      SetAdd(@, toUpperCaseText(Head(entries).key)),
                   !.stats.methodCounts =
                      Increment(@, toUpperCaseText(Head(entries).key))]
           ELSE acc,
         Tail(entries))

\* getApiStats, lines 566-579: the loop over the paths of one spec.
RECURSIVE CountPaths(_, _)
CountPaths(acc, paths) ==
  IF paths = <<>> THEN acc
  ELSE CountPaths(
         [CountKeys(acc, Head(paths).item.entries) EXCEPT
            !.stats.commonPaths = Increment(@, pathPattern(Head(paths).path))],
         Tail(paths))

\* spec.info?.version || 'unknown'
Unknown == <<"u", "n", "k", "n", "o", "w", "n">>
VersionKey(e) ==
  IF Truthy(InfoOf(e).version) THEN InfoOf(e).version.text ELSE Unknown

\* stats.totalEndpoints += endpointCount
\* (LastEndpoints: stats.totalEndpoints = endpointCount.)
LastEndpoints(total, endpointCount) == endpointCount
AddEndpoints(total, endpointCount) == total + endpointCount

\* getApiStats, lines 561-594: the loop over the specs.
RECURSIVE CountSpecs(_, _)
CountSpecs(stats, sp) ==
  IF sp = <<>> THEN stats
  ELSE LET e == Head(sp)
           acc == CountPaths([endpointCount |-> 0, apiMethods |-> <<>>,
                              stats |-> stats], PathsOf(e))
       IN CountSpecs(
            [acc.stats EXCEPT
               !.totalEndpoints = AddEndpoints(@, acc.endpointCount),
               !.versions = Increment(@, VersionKey(e)),
               !.apis = Append(@, [filename |-> e.filename,
                                   title |-> InfoOf(e).title,
                                   version |-> InfoOf(e).version,
                                   endpointCount |-> acc.endpointCount,
                                   methods |-> sort(acc.apiMethods)])],
            Tail(sp))

getApiStats(sp) ==
  IF getApiStatsThrows(sp) THEN Threw
  ELSE Returned(CountSpecs([totalApis |-> Len(sp), totalEndpoints |-> 0,
                            methodCounts |-> <<>>, commonPaths |-> <<>>,
                            versions |-> <<>>, apis |-> <<>>], sp))

\* spec.components.schemas[schemaName]: the object's own property, else
\* the property of that name on Object.prototype, else undefined.
Undefined == [kind |-> "undefined", id |-> "undefined"]
SchemaAt(schemas, schemaName) ==
  IF \E i \in 1..Len(schemas) : schemas[i].name = schemaName
    THEN schemas[CHOOSE i \in 1..Len(schemas) :
                   schemas[i].name = schemaName].value
  ELSE IF schemaName \in ObjectPrototypeKeys THEN Inherited
  ELSE Undefined
\* JavaScript truthiness of what the read found.
TruthySchema(v) == v.kind \in {"object", "function"}

\* compareSchemas: schema2Name ? [schema1Name, schema2Name] : [schema1Name]
schemaNames(schema1Name, schema2Name) ==
  IF schema2Name # <<>> THEN <<schema1Name, schema2Name>>
  ELSE <<schema1Name>>

\* compareSchemas
SchemaComparison(e, schemaName) ==
  [filename |-> e.filename, api |-> InfoOf(e).title,
   schemaName |-> schemaName,
   schema |-> SchemaAt(Doc(e.spec).schemas, schemaName)]
compareSchemas(sp, schema1Name, schema2Name) ==
  Returned(Flatten([i \in 1..Len(sp) |->
    IF ~Doc(sp[i].spec).hasSchemas THEN <<>>
    ELSE Flatten([n \in 1..Len(schemaNames(schema1Name, schema2Name)) |->
           IF TruthySchema(SchemaAt(Doc(sp[i].spec).schemas,
                             schemaNames(schema1Name, schema2Name)[n]))
             THEN <<SchemaComparison(sp[i],
                      schemaNames(schema1Name, schema2Name)[n])>>
             ELSE <<>>])]))

\* ------------------------------------------------------ the tool handler
Tools ==
  {"load_specs", "list_apis", "get_api_spec", "search_endpoints",
   "get_api_stats", "find_inconsistencies", "compare_schemas",
   "get_load_sources"}
\* The tools whose inputSchema has no properties.
NoArgTools ==
  {"load_specs", "list_apis", "get_api_stats", "find_inconsistencies",
   "get_load_sources"}
ToolNames == Tools \cup {"no_such_tool"}

\* request.params.arguments: absent altogether (present = FALSE) or an
\* object; a missing field reads as the empty string, falsy like undefined.
NoArgs == [present |-> FALSE, filename |-> EmptyName, query |-> "",
           schema1 |-> "", schema2 |-> ""]
ArgsOf(name) ==
  {NoArgs} \cup
  CASE name = "get_api_spec" ->
         [present : {TRUE}, filename : {EmptyName, <<"a", "json">>, <<"zz", "">>},
          query : {""}, schema1 : {""}, schema2 : {""}]
    [] name = "search_endpoints" ->
         [present : {TRUE}, filename : {EmptyName}, query : {"", "pets"},
          schema1 : {""}, schema2 : {""}]
    [] name = "compare_schemas" ->
         [present : {TRUE}, filename : {EmptyName}, query : {""},
          schema1 : {"", "User"}, schema2 : {"", "User"}]
    [] OTHER ->
         [present : {TRUE}, filename : {EmptyName}, query : {""},
          schema1 : {""}, schema2 : {""}]

\* { content: [{ type: 'text', text }] }
Text(name, head, detail) ==
  [tool |-> name, fault |-> FALSE, head |-> head, detail |-> detail,
   count |-> 0]
\* The handler's catch: the text is `Error: ${error}`.  (Uncaught: the
\* exception leaves the handler, a protocol-level fault.)
Uncaught(name, error) ==
  [tool |-> name, fault |-> TRUE, head |-> NULL, detail |-> error,
   count |-> 0]
Caught(name, error) == Text(name, "Error:", error)

\* The early return of the handler when params.arguments is missing.
MissingArguments(name, args) == ~args.present

\* The response of every tool but load_specs, lines 779-936.
Answer(name, args) ==
  IF MissingArguments(name, args)
    THEN Text(name, "Error:", "No arguments provided")
  ELSE CASE name = "list_apis" -> Text(name, "json", "list")
    [] name = "get_api_spec" ->
         IF args.filename = EmptyName
           THEN Text(name, "Error:", "filename parameter is required")
         ELSE IF getSpecByFilename(specs, args.filename) = NULL
           THEN Text(name, "API spec not found:", args.filename)
         ELSE Text(name, "json", getSpecByFilename(specs, args.filename))
    [] name = "search_endpoints" ->
         IF args.query = ""
           THEN Text(name, "Error:", "query parameter is required")
         ELSE IF searchEndpointsThrows(specs, args.query)
           THEN Caught(name, "TypeError")
         ELSE Text(name, "json", "hits")
    [] name = "get_api_stats" ->
         IF getApiStatsThrows(specs) THEN Caught(name, "TypeError")
         ELSE Text(name, "json", "stats")
    [] name = "find_inconsistencies" ->
         IF findInconsistenciesThrows(specs)
           THEN Caught(name, "TypeError")
         ELSE Text(name, "json", "inconsistencies")
    [] name = "compare_schemas" ->
         IF args.schema1 = ""
           THEN Text(name, "Error:", "schema1 parameter is required")
         ELSE Text(name, "json", "comparison")
    [] name = "get_load_sources" -> Text(name, "json", "sources")
    [] OTHER -> Caught(name, "Error: Unknown tool")

\* The tools that read the registry when they get as far as the analyzer.
ReadsRegistry(name, args) ==
  /\ ~MissingArguments(name, args)
  /\ \/ name \in {"list_apis", "get_api_stats", "find_inconsistencies"}
     \/ name = "get_api_spec" /\ args.filename # EmptyName
     \/ name = "search_endpoints" /\ args.query # ""
     \/ name = "compare_schemas" /\ args.schema1 # ""

Loading(q) == pc[q] \notin {"idle", "done", "rejected"}

\* A tool call other than an accepted load_specs: it runs to its response
\* without an await that lets another handler in.
CallTool(p, name, args) ==
  /\ server = "running"
  /\ pc[p] = "idle"
  /\ calls < MaxCalls
  /\ name # "load_specs" \/ MissingArguments(name, args)
  /\ calls' = calls + 1
  /\ resp' = Answer(name, args)
  /\ obs' = [q \in Procs |->
               IF track /\ Loading(q) /\ ReadsRegistry(name, args)
                 THEN Saw(specs) ELSE obs[q]]
  /\ UNCHANGED <<asked, server, exitCode, cfg, fsState, track, specs, loadedSources, pc,
                 idx, tried, failed, srcTried, before>>

\* load_specs up to its first await: loadSpecs empties the registry and
\* the source list, then starts on the first configured source.
CallLoadSpecs(p, args) ==
  /\ server = "running"
  /\ pc[p] = "idle"
  /\ calls < MaxCalls
  /\ ~MissingArguments("load_specs", args)
  /\ calls' = calls + 1
  /\ specs' = <<>>
  /\ loadedSources' = <<>>
  /\ pc' = [pc EXCEPT ![p] = EnterDiscovery]
  /\ idx' = [idx EXCEPT ![p] = 1]
  /\ tried' = [tried EXCEPT ![p] = {}]
  /\ failed' = [failed EXCEPT ![p] = {}]
  /\ srcTried' = [srcTried EXCEPT ![p] = SourceOfPc(EnterDiscovery)]
  /\ before' = [before EXCEPT ![p] = IF track THEN specs ELSE <<>>]
  /\ obs' = [obs EXCEPT ![p] = NoObs]
  /\ resp' = NoResp
  /\ asked' = NoCall
  /\ UNCHANGED <<server, exitCode, cfg, fsState, track>>

\* load_specs after `await analyzer.loadSpecs()`: the response.
LoadSpecsReturn(p) ==
  /\ pc[p] \in {"done", "rejected"}
  /\ resp' = IF pc[p] = "done"
               THEN [Text("load_specs", "Successfully loaded", "count")
                       EXCEPT !.count = Len(specs)]
               ELSE Caught("load_specs", "Error")
  /\ pc' = [pc EXCEPT ![p] = "idle"]
  /\ tried' = [tried EXCEPT ![p] = {}]
  /\ failed' = [failed EXCEPT ![p] = {}]
  /\ srcTried' = [srcTried EXCEPT ![p] = {}]
  /\ before' = [before EXCEPT ![p] = <<>>]
  /\ obs' = [obs EXCEPT ![p] = NoObs]
  /\ UNCHANGED <<asked, server, exitCode, cfg, fsState, track, specs, loadedSources, idx,
                 calls>>

Next ==
  \/ Main
  \/ \E p \in Procs :
       \/ \E name \in ToolNames : \E args \in ArgsOf(name) :
            CallTool(p, name, args)
       \/ \E args \in ArgsOf("load_specs") : CallLoadSpecs(p, args)
       \/ FetchRegistryFails(p)
       \/ LoadRegistryApi(p)
       \/ LoadUrl(p)
       \/ OpenFolderFails(p)
       \/ LoadFile(p)
       \/ LoadSpecsReturn(p)

Spec == Init /\ [][Next]_vars

\* The same program, with the two histories before and obs recorded.
InitObserved ==
  /\ server = "starting"
  /\ exitCode = 0
  /\ cfg \in Configs
  /\ fsState \in FolderStates
  /\ (cfg.specsFolder = NULL => fsState = "enoent")
  /\ specs = <<>>
  /\ loadedSources = <<>>
  /\ pc = [p \in Procs |-> "idle"]
  /\ idx = [p \in Procs |-> 0]
  /\ tried = [p \in Procs |-> {}]
  /\ failed = [p \in Procs |-> {}]
  /\ srcTried = [p \in Procs |-> {}]
  /\ track = TRUE
  /\ before = [p \in Procs |-> <<>>]
  /\ obs = [p \in Procs |-> NoObs]
  /\ resp = NoResp
  /\ calls = 0
  /\ asked = NoCall
SpecObserved == InitObserved /\ [][Next]_vars

\* ------------------------------------------------- the queries, run
\* The analyzer's methods and the tools' handlers applied to registries
\* of up to MaxSpecs entries, each any fixture document under one of two
\* filenames: the last call the server takes.
Filenames == {<<"a", "json">>, <<"b", "yaml">>}
Entry(filename, id) ==
  [filename |-> filename, spec |-> id,
   source |-> [type |-> "local", url |-> NoUrl],
   item |-> <<"folder", 0>>, by |-> 1]
Entries == {Entry(f, id) : f \in Filenames, id \in DocIds}
Registries == UNION {[1..n -> Entries] : n \in 0..MaxSpecs}

Queries ==
  {<<>>, <<"/", "p">>, <<"G", "E", "T">>, <<"p", "o", "s", "t">>,
   <<"sz">>, <<"p">>, <<"p", " ", "g">>, <<"L", "s">>, <<"b", "y", " ", "I", "D">>, <<"z", "z">>}
User == <<"U", "s", "e", "r">>
Order == <<"O", "r", "d", "e", "r">>
FirstNames == {User, Order, Constructor, <<"C", "a", "r", "t">>}
SecondNames == {<<>>, User, Order}

InitQueries ==
  /\ server = "running"
  /\ exitCode = 0
  /\ cfg = [discoveryUrl |-> NULL, specUrls |-> <<>>,
            specsFolder |-> "/specs"]
  /\ fsState = "ok"
  /\ specs \in Registries
  /\ loadedSources = <<>>
  /\ pc = [p \in Procs |-> "idle"]
  /\ idx = [p \in Procs |-> 0]
  /\ tried = [p \in Procs |-> {}]
  /\ failed = [p \in Procs |-> {}]
  /\ srcTried = [p \in Procs |-> {}]
  /\ track = FALSE
  /\ before = [p \in Procs |-> <<>>]
  /\ obs = [p \in Procs |-> NoObs]
  /\ resp = NoResp
  /\ calls = MaxCalls - 1
  /\ asked = NoCall

\* What a call of a method of the analyzer leaves to look at.
MethodResult(name, r) ==
  [tool |-> name, fault |-> FALSE,
   head |-> IF r.threw THEN "threw" ELSE "returned", detail |-> r.value,
   count |-> 0]
\* What a query method leaves of this.specs and of this.loadedSources:
\* none of them assigns to either or changes an element.
\* (Reversed: this.specs.reverse(), in place, on the way.)
Reversed(op, list) == [i \in 1..Len(list) |-> list[Len(list) + 1 - i]]
AfterQuery(op, list) == list

\* A call, of a method or of a tool, that only reads the registry, while
\* no load is running.
Ask(call, answer) ==
  /\ server = "running"
  /\ \A p \in Procs : pc[p] = "idle"
  /\ calls < MaxCalls
  /\ calls' = calls + 1
  /\ asked' = call
  /\ resp' = answer
  /\ specs' = AfterQuery(call.op, specs)
  /\ loadedSources' = AfterQuery(call.op, loadedSources)
  /\ UNCHANGED <<server, exitCode, cfg, fsState, pc, idx, tried, failed,
                 srcTried, track, before, obs>>

\* tools/call get_api_spec
CallGetApiSpec(args) ==
  Ask([NoCall EXCEPT !.op = "get_api_spec", !.present = args.present,
                     !.filename = args.filename],
      Answer("get_api_spec", args))

\* analyzer.searchEndpoints(query)
CallSearchEndpoints(query) ==
  Ask([NoCall EXCEPT !.op = "searchEndpoints", !.query = query],
      MethodResult("searchEndpoints", searchEndpoints(specs, query)))

\* analyzer.getApiStats()
CallGetApiStats ==
  Ask([NoCall EXCEPT !.op = "getApiStats"],
      MethodResult("getApiStats", getApiStats(specs)))

\* analyzer.compareSchemas(schema1Name, schema2Name)
CallCompareSchemas(schema1Name, schema2Name) ==
  Ask([NoCall EXCEPT !.op = "compareSchemas", !.schema1 = schema1Name,
                     !.schema2 = schema2Name],
      MethodResult("compareSchemas",
                   compareSchemas(specs, schema1Name, schema2Name)))

\* tools/call compare_schemas, lines 890-911:
\*   const schema2 = (args.schema2 as string) || schema1
SecondOrFirst(schema1, schema2) ==
  IF schema2 # <<>> THEN schema2 ELSE schema1
CompareSchemasTool(sp, schema1, schema2) ==
  IF schema1 = <<>>
    THEN Text("compare_schemas", "Error:", "schema1 parameter is required")
    ELSE Text("compare_schemas", "json",
              compareSchemas(sp, schema1,
                             SecondOrFirst(schema1, schema2)).value)
CallCompareSchemasTool(schema1, schema2) ==
  Ask([NoCall EXCEPT !.op = "compare_schemas", !.schema1 = schema1,
                     !.schema2 = schema2],
      CompareSchemasTool(specs, schema1, schema2))

\* analyzer.listAllSpecs()
CallListAllSpecs ==
  Ask([NoCall EXCEPT !.op = "listAllSpecs"],
      MethodResult("listAllSpecs", Returned(listAllSpecs(specs))))

\* analyzer.findInconsistencies()
CallFindInconsistencies ==
  Ask([NoCall EXCEPT !.op = "findInconsistencies"],
      MethodResult("findInconsistencies", findInconsistencies(specs)))

\* analyzer.getLoadedSources()
CallGetLoadedSources ==
  Ask([NoCall EXCEPT !.op = "getLoadedSources"],
      MethodResult("getLoadedSources",
                   Returned(getLoadedSources(loadedSources))))

NextQueries ==
  \/ CallListAllSpecs
  \/ CallFindInconsistencies
  \/ CallGetLoadedSources
  \/ \E args \in ArgsOf("get_api_spec") : CallGetApiSpec(args)
  \/ \E query \in Queries : CallSearchEndpoints(query)
  \/ CallGetApiStats
  \/ \E schema1Name \in FirstNames : \E schema2Name \in SecondNames :
       CallCompareSchemas(schema1Name, schema2Name)
  \/ \E schema1 \in FirstNames \cup {<<>>} : \E schema2 \in SecondNames :
       CallCompareSchemasTool(schema1, schema2)

SpecQueries == InitQueries /\ [][NextQueries]_vars

\* --------------------------------------------- the server, one request
\* at a time: from start-up, load_specs calls of one handler and, between
\* them, the queries with their results.
NextServed ==
  \/ Main
  \/ \E args \in ArgsOf("load_specs") : CallLoadSpecs(1, args)
  \/ FetchRegistryFails(1)
  \/ LoadRegistryApi(1)
  \/ LoadUrl(1)
  \/ OpenFolderFails(1)
  \/ LoadFile(1)
  \/ LoadSpecsReturn(1)
  \/ NextQueries
SpecServed == Init /\ [][NextServed]_vars


\* ================================================================ claims
SourceRank(s) ==
  CASE s = "discovery" -> 1 [] s = "urls" -> 2 [] OTHER -> 3

\* Item a is handled before item b in one load: by source, then by place.
ItemBefore(a, b) ==
  \/ SourceRank(a[1]) < SourceRank(b[1])
  \/ a[1] = b[1] /\ a[2] < b[2]

ConfiguredSources ==
  {s \in Sources :
     \/ s = "discovery" /\ cfg.discoveryUrl # NULL
     \/ s = "urls" /\ Len(cfg.specUrls) > 0
     \/ s = "folder" /\ cfg.specsFolder # NULL}

\* The items of the entries that load p has put into the registry.
LoadedBy(sp, p) == {sp[k].item : k \in {n \in 1..Len(sp) : sp[n].by = p}}

\* loadSpecs of handler p resolves in this step.
Completes(p) == Loading(p) /\ pc'[p] = "done"

\* C1: a query handled while a load_specs is suspended at an await sees
\* the whole registry of before that load or the whole registry of after
\* it, never an empty or partly filled one.
C1_QueriesSeeWholeSnapshots ==
  [][\A p \in Procs :
       (Completes(p) /\ obs[p].seen) =>
          obs[p].specs \in {before[p], specs'}]_vars

\* C2: no two entries of the registry have the same filename.
C2_OneSpecPerFilename ==
  \A i, j \in 1..Len(specs) :
    specs[i].filename = specs[j].filename => i = j

C4_StopsAtFirstSuccess ==
  \A p \in Procs : \A item \in LoadedBy(specs, p) :
    \A s \in srcTried[p] : SourceRank(s) <= SourceRank(item[1])

C6_ReloadReplacesSnapshot ==
  [][\A p \in Procs :
       Completes(p) =>
         /\ \A k \in 1..Len(specs') : specs'[k].by = p
         /\ LoadedBy(specs', p) = tried'[p] \ failed'[p]
         /\ Len(specs') = Cardinality(tried'[p] \ failed'[p])]_vars

\* C7: with no source configured, or with a configured folder that is
\* missing, no directory or unreadable, the process exits with a non-zero
\* status before the server connects, and no tool call is served.
ConfigurationError ==
  \/ NoSourceConfigured(cfg)
  \/ cfg.specsFolder # NULL /\ fsState # "ok"
C7_ConfigErrorsAreFatal ==
  (ConfigurationError /\ server # "starting") =>
     /\ server = "exited"
     /\ exitCode # 0
     /\ calls = 0

\* C8: loadSpecs rejects when the specs folder is not configured, does not
\* exist, is not a directory or is not readable: a loadSpecs that has
\* resolved had a valid folder.
C8_LoadSpecsRejectsOnBadFolder ==
  \A p \in Procs :
    pc[p] = "done" => validateLocalFolder(cfg.specsFolder, fsState) = NULL

\* C9: a tool that takes no arguments answers a request without an
\* arguments object with its normal result, not with an error text.
EmptyArguments == [NoArgs EXCEPT !.present = TRUE]
C9_NoArgToolsNeedNoArguments ==
  [][\A p \in Procs : \A name \in NoArgTools :
       CallTool(p, name, NoArgs) =>
          /\ name # "load_specs"
          /\ resp' = Answer(name, EmptyArguments)]_vars

\* C10: no tool call ends in a protocol-level fault; a missing required
\* argument, an unknown tool name and an exception thrown by the analyzer
\* each give a text starting with 'Error:', and such a call leaves the
\* registry as it was.
MissingRequired(name, args) ==
  \/ name = "get_api_spec" /\ args.filename = EmptyName
  \/ name = "search_endpoints" /\ args.query = ""
  \/ name = "compare_schemas" /\ args.schema1 = ""
AnalyzerThrows(name, args) ==
  \/ name = "search_endpoints" /\ args.query # ""
       /\ searchEndpointsThrows(specs, args.query)
  \/ name = "get_api_stats" /\ getApiStatsThrows(specs)
  \/ name = "find_inconsistencies" /\ findInconsistenciesThrows(specs)
C10_ErrorsAreTexts ==
  [][/\ ~resp'.fault
     /\ \A p \in Procs : \A name \in ToolNames : \A args \in ArgsOf(name) :
          ( /\ CallTool(p, name, args)
            /\ \/ MissingRequired(name, args)
               \/ name \notin Tools
               \/ AnalyzerThrows(name, args) ) =>
             /\ resp'.head = "Error:"
             /\ specs' = specs
             /\ loadedSources' = loadedSources]_vars

\* The analyzer threw on a loaded document and the caller got the text.
C10_Witness ==
  /\ resp.tool = "get_api_stats"
  /\ resp.head = "Error:" /\ resp.detail = "TypeError"
  /\ getApiStatsThrows(specs)


\* ------------------------------------------- the claims on the queries
\* C11: get_api_spec(id) returns the unmodified raw document of the
\* registry entry whose filename equals id when there is one; otherwise,
\* also on an empty registry, getSpecByFilename returns null and the tool
\* the text 'API spec not found: <id>'; neither throws.
C11_GetApiSpecFindsOrNotFound ==
  (asked.op = "get_api_spec" /\ asked.filename # EmptyName) =>
    /\ ~resp.fault
    /\ IF \E i \in 1..Len(specs) : specs[i].filename = asked.filename
         THEN /\ resp.head = "json"
              /\ \E i \in 1..Len(specs) :
                   /\ specs[i].filename = asked.filename
                   /\ resp.detail = specs[i].spec
         ELSE /\ getSpecByFilename(specs, asked.filename) = NULL
              /\ resp.head = "API spec not found:"
              /\ resp.detail = asked.filename
C11_Witness ==
  /\ asked.op = "get_api_spec"
  /\ resp.head = "json"
  /\ Len(specs) = 2
  /\ specs[1].filename # asked.filename
  /\ specs[1].spec # specs[2].spec

\* A spec defines a schema when its components.schemas has a property of
\* that name of its own whose value is a schema object.
Defines(e, name) ==
  /\ Doc(e.spec).hasSchemas
  /\ \E k \in 1..Len(Doc(e.spec).schemas) :
       /\ Doc(e.spec).schemas[k].name = name
       /\ Doc(e.spec).schemas[k].value.kind = "object"
Definers(sp, name) == {i \in 1..Len(sp) : Defines(sp[i], name)}

\* C12: the compare_schemas tool called with schema1 only (schema2 missing
\* or empty) looks for schema1 alone, and its result has exactly one record
\* for every loaded spec that defines schema1.
C12_Schema1OnlyOneRecordPerSpec ==
  (asked.op = "compare_schemas" /\ asked.schema1 # <<>>
     /\ asked.schema2 = <<>>) =>
    /\ resp.head = "json"
    /\ Len(resp.detail) = Cardinality(Definers(specs, asked.schema1))
    /\ \A n \in 1..Len(resp.detail) :
         resp.detail[n].schemaName = asked.schema1

\* The schema a spec defines under a name.
DefinedSchema(e, name) ==
  Doc(e.spec).schemas[CHOOSE k \in 1..Len(Doc(e.spec).schemas) :
                        Doc(e.spec).schemas[k].name = name].value
\* The target names of a comparison, and the (spec, name) pairs that should
\* give a record, with the place of a pair in spec order, then name order.
TargetNames(name1, name2) ==
  IF name2 = <<>> THEN <<name1>> ELSE <<name1, name2>>
DefinedPairs(sp, names) ==
  {pr \in (1..Len(sp)) \X (1..Len(names)) : Defines(sp[pr[1]], names[pr[2]])}
PairRank(pairs, pr) ==
  1 + Cardinality({u \in pairs :
                     u[1] < pr[1] \/ (u[1] = pr[1] /\ u[2] < pr[2])})

\* C13: compareSchemas(name1, name2), name2 falsy or another name than
\* name1, returns exactly one record for every (spec, name) pair where the
\* spec has components.schemas[name] and name is a target name, with that
\* schema unchanged, in spec order then name order; a spec without
\* components.schemas or without the name gives nothing.
C13_OneRecordPerSpecAndName ==
  (asked.op = "compareSchemas"
     /\ (asked.schema2 = <<>> \/ asked.schema2 # asked.schema1)) =>
    LET names == TargetNames(asked.schema1, asked.schema2)
        pairs == DefinedPairs(specs, names)
    IN /\ resp.head = "returned"
       /\ Len(resp.detail) = Cardinality(pairs)
       /\ \A pr \in pairs :
            LET rec == resp.detail[PairRank(pairs, pr)]
            IN /\ rec.filename = specs[pr[1]].filename
               /\ rec.schemaName = names[pr[2]]
               /\ rec.schema = DefinedSchema(specs[pr[1]], names[pr[2]])

\* The text the claims say an operation is searched in: path, key,
\* summary, description and operationId, an absent field as the empty
\* string, with single spaces between them, in lower case.
FieldText(opt) == IF opt.has THEN opt.text ELSE <<>>
SearchedText(path, key, op) ==
  toLowerCaseText(path \o <<" ">> \o key \o <<" ">> \o
                  FieldText(op.summary) \o <<" ">> \o
                  FieldText(op.description) \o <<" ">> \o
                  FieldText(op.operationId))
\* The (spec, path, key) triples of a registry, by their positions, and the
\* ones a query should find.
Triples(sp) ==
  UNION {UNION {{<<i, k, m>> :
                   m \in 1..Len(PathsOf(sp[i])[k].item.entries)} :
                k \in 1..Len(PathsOf(sp[i]))} :
         i \in 1..Len(sp)}
PathAt(sp, t) == Doc(sp[t[1]].spec).paths[t[2]].path
KeyAt(sp, t) == Doc(sp[t[1]].spec).paths[t[2]].item.entries[t[3]].key
ValueAt(sp, t) == Doc(sp[t[1]].spec).paths[t[2]].item.entries[t[3]].op
Matching(sp, q) ==
  {t \in Triples(sp) :
     /\ ValueAt(sp, t).kind \in {"object", "array"}
     /\ includes(SearchedText(PathAt(sp, t), KeyAt(sp, t), ValueAt(sp, t)),
                 toLowerCaseText(q))}
TripleBefore(u, t) ==
  \/ u[1] < t[1]
  \/ u[1] = t[1] /\ u[2] < t[2]
  \/ u[1] = t[1] /\ u[2] = t[2] /\ u[3] < t[3]
TripleRank(set, t) == 1 + Cardinality({u \in set : TripleBefore(u, t)})

\* C14: searchEndpoints(query) returns exactly one result for each (spec,
\* path, key) triple whose value is a non-null object and whose lower-cased
\* text 'path key summary description operationId' contains the lower-cased
\* query, in spec, then path, then key order, with the upper-cased key as
\* method; a query that matches nothing gives the empty sequence.
C14_SearchFindsExactlyTheMatches ==
  (asked.op = "searchEndpoints" /\ resp.head = "returned") =>
    LET hits == Matching(specs, asked.query)
    IN /\ Len(resp.detail) = Cardinality(hits)
       /\ \A t \in hits :
            LET r == resp.detail[TripleRank(hits, t)]
            IN /\ r.filename = specs[t[1]].filename
               /\ r.path = PathAt(specs, t)
               /\ r.method = toUpperCaseText(KeyAt(specs, t))
               /\ r.summary = ValueAt(specs, t).summary
               /\ r.description = ValueAt(specs, t).description
               /\ r.operationId = ValueAt(specs, t).operationId
\* Two specs, a query in another case than the key it matches, and a key
\* of the same path that is passed over.
C14_Witness ==
  /\ asked.op = "searchEndpoints"
  /\ resp.head = "returned"
  /\ asked.query = <<"p", "o", "s", "t">>
  /\ Len(resp.detail) = 2
  /\ resp.detail[1].filename # resp.detail[2].filename
  /\ resp.detail[2].method = <<"P", "O", "S", "T">>
  /\ resp.detail[2].path = <<"/", "p", "/", "{", "b", "}">>

\* C15: searchEndpoints is case-insensitive in the query: for every
\* registry and every query q, searchEndpoints(q), searchEndpoints of q in
\* upper case and searchEndpoints of q in lower case return the same
\* sequence.
C15_SearchIgnoresQueryCase ==
  (asked.op = "searchEndpoints" /\ resp.head = "returned") =>
    /\ resp.detail =
         searchEndpoints(specs, toUpperCaseText(asked.query)).value
    /\ resp.detail =
         searchEndpoints(specs, toLowerCaseText(asked.query)).value

\* The sum of the values of a counter object, and whether all of them are
\* numbers.
RECURSIVE SumOfValues(_)
SumOfValues(obj) ==
  IF obj = <<>> THEN 0 ELSE Head(obj).value.n + SumOfValues(Tail(obj))
AllNumbers(obj) == \A i \in 1..Len(obj) : obj[i].value.num

\* C16: for every registry the values of getApiStats().methodCounts sum to
\* getApiStats().totalEndpoints.
C16_MethodCountsSumToTotal ==
  (asked.op = "getApiStats" /\ resp.head = "returned") =>
    /\ AllNumbers(resp.detail.methodCounts)
    /\ SumOfValues(resp.detail.methodCounts) = resp.detail.totalEndpoints
C16_Witness ==
  /\ asked.op = "getApiStats"
  /\ resp.head = "returned"
  /\ Len(specs) = 2
  /\ Len(resp.detail.methodCounts) >= 3
  /\ resp.detail.totalEndpoints = 7
  /\ \E i \in 1..Len(resp.detail.methodCounts) :
       resp.detail.methodCounts[i].value.n >= 4

\* The recognized verbs in upper case, in ascending order, and the triples
\* of a registry whose key is one of them whatever its case.
VerbOrder ==
  <<<<"D", "E", "L", "E", "T", "E">>, <<"G", "E", "T">>, <<"H", "E", "A", "D">>,
    <<"O", "P", "T", "I", "O", "N", "S">>, <<"P", "A", "T", "C", "H">>,
    <<"P", "O", "S", "T">>, <<"P", "U", "T">>>>
IsVerb(key) == IndexIn(VerbOrder, toUpperCaseText(key)) > 0
VerbTriples(sp) == {t \in Triples(sp) : IsVerb(KeyAt(sp, t))}

\* C17: getApiStats().totalApis is the number of registry entries and
\* totalEndpoints the number of (spec, path, key) triples whose key is, in
\* any case, one of get, post, put, delete, patch, options, head; any other
\* key of a path item adds nothing to totalEndpoints or methodCounts, and
\* the keys of methodCounts are the verbs in upper case.
C17_TotalsCountRecognizedVerbs ==
  (asked.op = "getApiStats" /\ resp.head = "returned") =>
    /\ resp.detail.totalApis = Len(specs)
    /\ resp.detail.totalEndpoints = Cardinality(VerbTriples(specs))
    /\ \A i \in 1..Len(resp.detail.methodCounts) :
         LET c == resp.detail.methodCounts[i]
         IN /\ IndexIn(VerbOrder, c.key) > 0
            /\ c.value = Number(Cardinality(
                 {t \in VerbTriples(specs) :
                    toUpperCaseText(KeyAt(specs, t)) = c.key}))
            /\ \A j \in 1..Len(resp.detail.methodCounts) :
                 resp.detail.methodCounts[j].key = c.key => j = i
    /\ \A t \in VerbTriples(specs) :
         \E i \in 1..Len(resp.detail.methodCounts) :
           resp.detail.methodCounts[i].key = toUpperCaseText(KeyAt(specs, t))
\* A spec with verbs in other cases and with keys that are no verbs.
C17_Witness ==
  /\ asked.op = "getApiStats"
  /\ resp.head = "returned"
  /\ Len(specs) = 2
  /\ resp.detail.totalEndpoints = 4
  /\ Cardinality(Triples(specs)) = 6
  /\ \E t \in VerbTriples(specs) :
       KeyAt(specs, t) # toLowerCaseText(KeyAt(specs, t))

\* The tokens of a path: the spans from a brace that opens to the next
\* brace that closes, at least one character between them, taken leftmost.
NoClosing(t, i, j) == \A h \in (i + 1)..(j - 1) : t[h] # "}"
Tokens(t) ==
  {sp \in (1..Len(t)) \X (1..Len(t)) :
     /\ t[sp[1]] = "{" /\ t[sp[2]] = "}"
     /\ sp[2] >= sp[1] + 2
     /\ NoClosing(t, sp[1], sp[2])
     /\ \A h \in 1..(sp[1] - 1) : ~(t[h] = "{" /\ NoClosing(t, h, sp[1]))}
\* The path with every token replaced by {id}.
NormalizedPath(t) ==
  Flatten([p \in 1..Len(t) |->
    IF \E sp \in Tokens(t) : sp[1] = p THEN <<"{", "i", "d", "}">>
    ELSE IF \E sp \in Tokens(t) : sp[1] < p /\ p <= sp[2] THEN <<>>
    ELSE <<t[p]>>])
\* The (spec, path) pairs of a registry, by their positions.
PathPairs(sp) ==
  UNION {{<<i, k>> : k \in 1..Len(PathsOf(sp[i]))} : i \in 1..Len(sp)}
PathOf(sp, pr) == PathsOf(sp[pr[1]])[pr[2]].path

\* C18: getApiStats().commonPaths maps each normalized path (every token
\* {name} replaced by {id}) to the number of (spec, original path) pairs
\* that normalize to it: paths that differ only in parameter names are one
\* key with the sum of their occurrences, and a spec with two variants of
\* one shape adds 2.
C18_CommonPathsCountNormalizedPaths ==
  (asked.op = "getApiStats" /\ resp.head = "returned") =>
    /\ \A i \in 1..Len(resp.detail.commonPaths) :
         LET c == resp.detail.commonPaths[i]
         IN /\ c.value = Number(Cardinality(
                 {pr \in PathPairs(specs) :
                    NormalizedPath(PathOf(specs, pr)) = c.key}))
            /\ \A j \in 1..Len(resp.detail.commonPaths) :
                 resp.detail.commonPaths[j].key = c.key => j = i
    /\ \A pr \in PathPairs(specs) :
         \E i \in 1..Len(resp.detail.commonPaths) :
           resp.detail.commonPaths[i].key = NormalizedPath(PathOf(specs, pr))
\* One spec with /a/{x} and /a/{y}, and a second spec.
C18_Witness ==
  /\ asked.op = "getApiStats"
  /\ resp.head = "returned"
  /\ Len(specs) = 2
  /\ specs[1].spec # specs[2].spec
  /\ \E i \in 1..Len(resp.detail.commonPaths) :
       /\ resp.detail.commonPaths[i].key = <<"/", "a", "/", "{", "i", "d", "}">>
       /\ resp.detail.commonPaths[i].value = Number(2)
  /\ \E i \in 1..Len(resp.detail.commonPaths) :
       /\ resp.detail.commonPaths[i].key = <<"/", "p", "/", "{", "i", "d", "}">>
       /\ resp.detail.commonPaths[i].value = Number(1)

\* The version a spec declares, 'unknown' when it has no info.version.
DeclaredVersion(e) ==
  IF Doc(e.spec).hasInfo /\ Doc(e.spec).info.version.has
    THEN Doc(e.spec).info.version.text
    ELSE <<"u", "n", "k", "n", "o", "w", "n">>

\* C19: getApiStats().versions maps each version string, or 'unknown' for
\* a spec without info.version, to the number of specs that declare it, so
\* its values always sum to totalApis.
C19_VersionsCountSpecs ==
  (asked.op = "getApiStats" /\ resp.head = "returned") =>
    /\ \A i \in 1..Len(resp.detail.versions) :
         resp.detail.versions[i].value =
           Number(Cardinality({k \in 1..Len(specs) :
                    DeclaredVersion(specs[k]) = resp.detail.versions[i].key}))
    /\ \A k \in 1..Len(specs) :
         \E i \in 1..Len(resp.detail.versions) :
           resp.detail.versions[i].key = DeclaredVersion(specs[k])
    /\ AllNumbers(resp.detail.versions)
    /\ SumOfValues(resp.detail.versions) = resp.detail.totalApis

\* C20: getApiStats().apis has one entry per registry entry, in registry
\* order; its methods are the recognized verbs the spec uses anywhere, in
\* upper case, without duplicates, in ascending order, and its endpointCount
\* is the number of (path, recognized verb) pairs of the spec, 0 for a spec
\* without paths.
C20_ApisListsMethodsAndEndpoints ==
  (asked.op = "getApiStats" /\ resp.head = "returned") =>
    /\ Len(resp.detail.apis) = Len(specs)
    /\ \A i \in 1..Len(specs) :
         LET api == resp.detail.apis[i]
             used == {t \in VerbTriples(specs) : t[1] = i}
         IN /\ api.filename = specs[i].filename
            /\ api.endpointCount = Cardinality(used)
            /\ (~Doc(specs[i].spec).hasPaths => api.endpointCount = 0)
            /\ {api.methods[n] : n \in 1..Len(api.methods)} =
                 {toUpperCaseText(KeyAt(specs, t)) : t \in used}
            /\ \A a \in 1..Len(api.methods) : \A b \in 1..Len(api.methods) :
                 a < b => IndexIn(VerbOrder, api.methods[a]) <
                          IndexIn(VerbOrder, api.methods[b])
\* A spec without paths first, then one whose keys are Post, GET, get and
\* delete.
C20_Witness ==
  /\ asked.op = "getApiStats"
  /\ resp.head = "returned"
  /\ Len(specs) = 2
  /\ ~Doc(specs[1].spec).hasPaths
  /\ resp.detail.apis[1].endpointCount = 0
  /\ resp.detail.apis[2].endpointCount = 4
  /\ Len(resp.detail.apis[2].methods) = 3


\* ------------------------------------------------------------------ C21
\* The security schemes of the registry that carry a type, each by the
\* place of its spec and its place among the schemes of that spec.
TypedSchemes ==
  {r \in UNION {{<<i, j>> : j \in 1..Len(Doc(specs[i].spec).securitySchemes)}
                : i \in 1..Len(specs)} :
     Doc(specs[r[1]].spec).securitySchemes[r[2]].type # ""}
TypeAt(r) == Doc(specs[r[1]].spec).securitySchemes[r[2]].type
NameAt(r) ==
  <<specs[r[1]].filename, ": ", Doc(specs[r[1]].spec).securitySchemes[r[2]].name>>
ObservedTypes == {TypeAt(r) : r \in TypedSchemes}
SchemesOfType(t) == {r \in TypedSchemes : TypeAt(r) = t}
DetailKeys(details) == {details[k].key : k \in 1..Len(details)}
ListsTheSchemes(entry) ==
  /\ Len(entry.value) = Cardinality(SchemesOfType(entry.key))
  /\ {entry.value[n] : n \in 1..Len(entry.value)}
       = {NameAt(r) : r \in SchemesOfType(entry.key)}

\* C21: a findInconsistencies() that returns, returns nothing when the
\* security schemes of all specs declare at most one distinct type, and
\* otherwise exactly one record, of type 'authentication', whose details
\* have one key per observed type, each listing the schemes of that type
\* as 'filename: schemeName'.
C21_OneAuthenticationRecord ==
  (asked.op = "findInconsistencies" /\ resp.head = "returned") =>
    IF Cardinality(ObservedTypes) <= 1
      THEN resp.detail = <<>>
      ELSE /\ Len(resp.detail) = 1
           /\ resp.detail[1].type = "authentication"
           /\ Len(resp.detail[1].details) = Cardinality(ObservedTypes)
           /\ DetailKeys(resp.detail[1].details) = ObservedTypes
           /\ \A k \in 1..Len(resp.detail[1].details) :
                ListsTheSchemes(resp.detail[1].details[k])
\* Two specs that share the type apiKey, one of them with a second type
\* and a scheme without a type.
C21_Witness ==
  /\ asked.op = "findInconsistencies"
  /\ resp.head = "returned"
  /\ Len(resp.detail) = 1
  /\ \E k \in 1..Len(resp.detail[1].details) :
       Len(resp.detail[1].details[k].value) = 2
  /\ TypedSchemes # UNION {{<<i, j>> : j \in 1..Len(Doc(specs[i].spec).securitySchemes)}
                           : i \in 1..Len(specs)}


\* ------------------------------------------------------------------ C22
PathKeys(i) ==
  IF Doc(specs[i].spec).hasPaths
    THEN {k : k \in 1..Len(Doc(specs[i].spec).paths)}
    ELSE {}
OperationKeys(i) ==
  UNION {{<<k, n>> : n \in 1..Len(Doc(specs[i].spec).paths[k].item.entries)}
         : k \in PathKeys(i)}

\* C22: listAllSpecs() returns one summary per entry of the registry, in
\* registry order, whose endpointCount is the number of keys of the
\* spec's paths (however many methods a path has), and 0 for a spec
\* without paths or with empty paths.
C22_OneSummaryPerEntry ==
  asked.op = "listAllSpecs" =>
    /\ resp.head = "returned"
    /\ Len(resp.detail) = Len(specs)
    /\ \A i \in 1..Len(specs) :
         /\ resp.detail[i].filename = specs[i].filename
         /\ resp.detail[i].endpointCount = Cardinality(PathKeys(i))
\* A spec whose two paths carry four keys, next to one without paths.
C22_Witness ==
  /\ asked.op = "listAllSpecs"
  /\ Len(resp.detail) = 2
  /\ resp.detail[1].filename # resp.detail[2].filename
  /\ resp.detail[1].endpointCount = 0
  /\ resp.detail[2].endpointCount = 2
  /\ Cardinality(OperationKeys(2)) = 4

\* ------------------------------------------------------------------ C23
NoTitle == <<"N", "o", " ", "t", "i", "t", "l", "e">>
NoVersion == <<"N", "o", " ", "v", "e", "r", "s", "i", "o", "n">>
NoDescription ==
  <<"N", "o", " ", "d", "e", "s", "c", "r", "i", "p", "t", "i", "o", "n">>
\* The info of an entry as the document has it.
DeclaredInfo(i) ==
  IF Doc(specs[i].spec).hasInfo THEN Doc(specs[i].spec).info
  ELSE [title |-> Absent, version |-> Absent, description |-> Absent]
\* Nothing in the registry is malformed beyond what it leaves out: no
\* path item and no security scheme is null.
OnlyLeavesOut ==
  \A i \in 1..Len(specs) :
    /\ \A k \in PathKeys(i) : ~Doc(specs[i].spec).paths[k].item.isNull
    /\ \A k \in 1..Len(Doc(specs[i].spec).securitySchemes) :
         ~Doc(specs[i].spec).securitySchemes[k].isNull

\* C23: missing metadata makes no query fail.  listAllSpecs, searchEndpoints,
\* getApiStats, findInconsistencies and compareSchemas return whatever info,
\* paths or schemas the specs leave out, and listAllSpecs reports
\* 'No title', 'No version' and 'No description' for a spec without info
\* or without that field.
C23_MissingMetadataIsTolerated ==
  (/\ asked.op \in {"listAllSpecs", "searchEndpoints", "getApiStats",
                    "findInconsistencies", "compareSchemas"}
   /\ OnlyLeavesOut) =>
    /\ resp.head = "returned"
    /\ asked.op = "listAllSpecs" =>
         \A i \in 1..Len(specs) :
           /\ ~DeclaredInfo(i).title.has => resp.detail[i].title = NoTitle
           /\ ~DeclaredInfo(i).version.has
                => resp.detail[i].version = NoVersion
           /\ ~DeclaredInfo(i).description.has
                => resp.detail[i].description = NoDescription
\* A spec without info and one whose info has no field, listed.
C23_Witness ==
  /\ asked.op = "listAllSpecs"
  /\ OnlyLeavesOut
  /\ Len(specs) = 2
  /\ ~Doc(specs[1].spec).hasInfo
  /\ Doc(specs[2].spec).hasInfo /\ ~DeclaredInfo(2).title.has
  /\ resp.detail[1].title = NoTitle
  /\ resp.detail[2].description = NoDescription


\* ------------------------------------------------------------------ C26
\* The result r is the hit of the triple t.
HitOf(r, t) ==
  /\ r.filename = specs[t[1]].filename
  /\ r.path = PathAt(specs, t)
  /\ r.method = toUpperCaseText(KeyAt(specs, t))
HoldsObject(t) == ValueAt(specs, t).kind \in {"object", "array"}

\* C26: searchEndpoints has no list of verbs.  A key of a path item that
\* is no verb (parameters) and holds a non-null object or an array is
\* returned, when its text matches, with the upper-cased key as method,
\* and adds nothing to getApiStats().totalEndpoints; a key that is a verb
\* and holds no object is counted in totalEndpoints and returned by no
\* search; every hit is a key that holds an object or an array.
C26_SearchHasNoVerbList ==
  /\ (asked.op = "searchEndpoints" /\ resp.head = "returned") =>
       /\ \A t \in Matching(specs, asked.query) :
            ~IsVerb(KeyAt(specs, t)) =>
              \E n \in 1..Len(resp.detail) : HitOf(resp.detail[n], t)
       /\ \A t \in Triples(specs) :
            (IsVerb(KeyAt(specs, t)) /\ ~HoldsObject(t)) =>
              \A n \in 1..Len(resp.detail) : ~HitOf(resp.detail[n], t)
       /\ \A n \in 1..Len(resp.detail) :
            \E t \in Triples(specs) :
              HoldsObject(t) /\ HitOf(resp.detail[n], t)
  /\ (asked.op = "getApiStats" /\ resp.head = "returned") =>
       resp.detail.totalEndpoints
         = Cardinality({t \in Triples(specs) :
                          IsVerb(KeyAt(specs, t)) /\ HoldsObject(t)})
           + Cardinality({t \in Triples(specs) :
                            IsVerb(KeyAt(specs, t)) /\ ~HoldsObject(t)})
\* A search that returns an array under parameters as PARAMETERS and
\* passes over a delete that is null.
C26_Witness ==
  /\ asked.op = "searchEndpoints"
  /\ resp.head = "returned"
  /\ \E n \in 1..Len(resp.detail) :
       /\ ~IsVerb(resp.detail[n].method)
       /\ \E t \in Triples(specs) :
            ValueAt(specs, t).kind = "array" /\ HitOf(resp.detail[n], t)
  /\ \E t \in Triples(specs) :
       /\ IsVerb(KeyAt(specs, t))
       /\ ValueAt(specs, t).kind = "null"
       /\ \A n \in 1..Len(resp.detail) : ~HitOf(resp.detail[n], t)


\* ------------------------------------------------------------------ C28
RECURSIVE SumOfEndpointCounts(_)
SumOfEndpointCounts(list) ==
  IF list = <<>> THEN 0
  ELSE Head(list).endpointCount + SumOfEndpointCounts(Tail(list))

\* C28: in every result of getApiStats() the values of commonPaths sum to
\* the sum of the endpointCount of the summaries listAllSpecs() gives for
\* the same registry (the number of path keys), and the endpointCount of
\* the entries of apis sum to totalEndpoints.
C28_PathAndEndpointSums ==
  (asked.op = "getApiStats" /\ resp.head = "returned") =>
    /\ AllNumbers(resp.detail.commonPaths)
    /\ SumOfValues(resp.detail.commonPaths)
         = SumOfEndpointCounts(listAllSpecs(specs))
    /\ SumOfEndpointCounts(resp.detail.apis) = resp.detail.totalEndpoints
\* Two specs with paths, two of the paths under one pattern, and the two
\* sums apart.
C28_Witness ==
  /\ asked.op = "getApiStats"
  /\ resp.head = "returned"
  /\ Len(resp.detail.apis) = 2
  /\ resp.detail.apis[1].endpointCount > 0
  /\ resp.detail.apis[2].endpointCount > 0
  /\ \E i \in 1..Len(resp.detail.commonPaths) :
       resp.detail.commonPaths[i].value.n > 1
  /\ SumOfValues(resp.detail.commonPaths) # resp.detail.totalEndpoints


\* ------------------------------------------------------------------ C29
IsSubstring(a, b) ==
  \E i \in 0..(Len(b) - Len(a)) : SubSeq(b, i + 1, i + Len(a)) = a
\* a is b with some elements left out.
RECURSIVE IsSubsequence(_, _)
IsSubsequence(a, b) ==
  IF a = <<>> THEN TRUE
  ELSE IF b = <<>> THEN FALSE
  ELSE IF Head(a) = Head(b) THEN IsSubsequence(Tail(a), Tail(b))
  ELSE IsSubsequence(a, Tail(b))
\* The queries whose lower case is a part of the lower case of q.
PartsOf(q) ==
  {q1 \in Queries : IsSubstring(toLowerCaseText(q1), toLowerCaseText(q))}

\* C29: searchEndpoints is monotone in the query.  Where the lower case of
\* q1 is a substring of the lower case of q2, every result of
\* searchEndpoints(q2) is a result of searchEndpoints(q1) on the same
\* registry, in the same relative order.
C29_SearchIsMonotone ==
  (asked.op = "searchEndpoints" /\ resp.head = "returned") =>
    \A q1 \in PartsOf(asked.query) :
      IsSubsequence(resp.detail, searchEndpoints(specs, q1).value)
\* A query with results, and a proper part of it that has more results.
C29_Witness ==
  /\ asked.op = "searchEndpoints"
  /\ resp.head = "returned"
  /\ Len(resp.detail) > 1
  /\ \E q1 \in PartsOf(asked.query) :
       /\ q1 # <<>>
       /\ Len(searchEndpoints(specs, q1).value) > Len(resp.detail)


\* ------------------------------------------------------------------ C25
\* C25: the load-source list holds the records of the last load only: at
\* most one record per kind of source, in the order discovery, urls,
\* folder, and only of sources that are configured; every load_specs
\* starts by emptying it.
C25_SourcesOfTheLastLoad ==
  /\ \A i, j \in 1..Len(loadedSources) :
       i < j => SourceRank(loadedSources[i].type)
                  < SourceRank(loadedSources[j].type)
  /\ \A i \in 1..Len(loadedSources) :
       loadedSources[i].type \in ConfiguredSources


\* ------------------------------------------------------------------ C27
RECURSIVE SumOfCounts(_)
SumOfCounts(sources) ==
  IF sources = <<>> THEN 0
  ELSE Head(sources).count + SumOfCounts(Tail(sources))
\* The sources that have put an entry into the registry.
ContributingSources == {specs[k].item[1] : k \in 1..Len(specs)}
NoLoadRunning == \A p \in Procs : ~Loading(p)
CountsNeverDecrease ==
  \A i, j \in 1..Len(loadedSources) :
    i < j => loadedSources[i].count <= loadedSources[j].count
CountsSumToMore ==
  (NoLoadRunning /\ Cardinality(ContributingSources) > 1) =>
    SumOfCounts(loadedSources) > Len(specs)

\* C27: the count of a load-source record is the number of specs in the
\* registry when its source finished, not what that source contributed:
\* a step that adds a record adds one whose count is the registry's size
\* after the step; the counts never decrease along the list; and once no
\* load is running, with more than one contributing source the counts
\* sum to more than the number of loaded specs.
C27_CountIsRegistrySize ==
  [][/\ Len(loadedSources') > Len(loadedSources) =>
          /\ Len(loadedSources') = Len(loadedSources) + 1
          /\ SubSeq(loadedSources', 1, Len(loadedSources)) = loadedSources
          /\ loadedSources'[Len(loadedSources')].count = Len(specs')
     /\ CountsNeverDecrease'
     /\ CountsSumToMore']_vars
\* A finished load to which two sources contributed, with the first
\* record's count below the second's.
C27_Witness ==
  /\ NoLoadRunning
  /\ Cardinality(ContributingSources) > 1
  /\ Len(loadedSources) = 2
  /\ 0 < loadedSources[1].count
  /\ loadedSources[1].count < loadedSources[2].count
  /\ loadedSources[2].count = Len(specs)


\* ------------------------------------------------------------------ C24
\* The step is a query: a call that is answered and is no load_specs.
IsQueryStep == calls' = calls + 1 /\ asked'.op # NULL
NamesOf(list) == [i \in 1..Len(list) |-> list[i].filename]

IsEmptyStats(stats) ==
  /\ stats.totalApis = 0
  /\ stats.totalEndpoints = 0
  /\ stats.methodCounts = <<>>
  /\ stats.commonPaths = <<>>
  /\ stats.versions = <<>>
  /\ stats.apis = <<>>

\* C30: the registry is empty as long as no request was handled (the
\* server loads nothing at start-up), and on an empty registry
\* listAllSpecs, searchEndpoints, findInconsistencies and compareSchemas
\* return the empty sequence and getApiStats returns totalApis 0,
\* totalEndpoints 0 and empty methodCounts, commonPaths, versions, apis.
C30_EmptyRegistry ==
  /\ calls = 0 => specs = <<>> /\ loadedSources = <<>>
  /\ specs = <<>> =>
       /\ asked.op \in {"listAllSpecs", "searchEndpoints",
                        "findInconsistencies", "compareSchemas"}
            => resp.head = "returned" /\ resp.detail = <<>>
       /\ (asked.op = "compare_schemas" /\ asked.schema1 # <<>>)
            => resp.detail = <<>>
       /\ asked.op = "getApiStats"
            => resp.head = "returned" /\ IsEmptyStats(resp.detail)
\* The statistics asked for before any load_specs.
C30_Witness ==
  /\ server = "running"
  /\ calls = 1
  /\ asked.op = "getApiStats"
  /\ specs = <<>>
  /\ loadedSources = <<>>

====
